---- MODULE Spec2Model ----
(***************************************************************************)
(* Model of server.js (biblioteca-qa-api): the per-student JSON document   *)
(* store (DatabaseManager) and the HTTP handlers that drive it.            *)
(*                                                                         *)
(* Every request is a chain of asynchronous steps: the middleware and the  *)
(* handler run up to the database method's fs.readFile, the method runs    *)
(* from the resolved read up to fs.writeFile, and the write lands and the  *)
(* response is sent.  Steps of different requests interleave freely.       *)
(***************************************************************************)
EXTENDS Integers, Sequences, FiniteSets, TLC

\* ------------------------------------------------------------------ bounds
MaxClock == 1      \* instants new Date() can return: 0..MaxClock
MaxIds   == 2      \* identifiers uuidv4() hands out in one behaviour
MaxOps   == 4      \* largest metadata.totalOperations a save may start from

\* ------------------------------------------------------- JavaScript values
\* A primitive is a record tagged with its typeof; an object is a function
\* from its own keys to values.  n tells generated strings apart
\* (timestamps, uuids) and carries the value of a number.
Undefined == [t |-> "undefined", s |-> "", n |-> 0]
Null      == [t |-> "null", s |-> "", n |-> 0]
Str(x)    == [t |-> "string", s |-> x, n |-> 0]
Num(k)    == [t |-> "number", s |-> "", n |-> k]
True      == [t |-> "boolean", s |-> "", n |-> 1]
Iso(k)    == [t |-> "string", s |-> "ISO", n |-> k]
Uuid(k)   == [t |-> "string", s |-> "uuid", n |-> k]

IsPrimitive(v) == "t" \in DOMAIN v

\* ToBoolean: what `if (v)`, `!v`, `v || w` and `v && w` test.
Truthy(v) ==
  IF IsPrimitive(v)
  THEN CASE v.t = "string"  -> v.s # ""
         [] v.t = "number"  -> v.n # 0
         [] v.t = "boolean" -> v.n = 1
         [] OTHER           -> FALSE
  ELSE TRUE

\* a || b
Or(a, b) == IF Truthy(a) THEN a ELSE b

\* o[k], undefined for a key the object does not have
Get(o, k) == IF k \in DOMAIN o THEN o[k] ELSE Undefined

\* o?.k
OptGet(o, k) == IF o \in {Undefined, Null} THEN Undefined ELSE Get(o, k)

\* {...o}: the own properties of o, none for undefined or null
Spread(o) == IF IsPrimitive(o) THEN [x \in {} |-> Undefined] ELSE o

\* o[k] = v
Set(o, k, v) == [x \in DOMAIN o \cup {k} |-> IF x = k THEN v ELSE o[x]]

\* ----------------------------------------------------------- configuration
\* Two of the five entries of STUDENTS; every entry is handled alike.
STUDENTS == {"ARGENIS", "CALEB"}

BOOK_STATUSES == {Str("to-read"), Str("reading"), Str("read"), Str("abandoned")}

\* The :student path segments requests are made with.
PathTokens == {"argenis", "CALEB", "nobody"}

toUpperCase(x) ==
  CASE x = "argenis" -> "ARGENIS"
    [] x = "caleb"   -> "CALEB"
    [] x = "nobody"  -> "NOBODY"
    [] OTHER         -> x

toLowerCase(x) ==
  CASE x = "ARGENIS" -> "argenis"
    [] x = "CALEB"   -> "caleb"
    [] x = "NOBODY"  -> "nobody"
    [] OTHER         -> x

\* All students mapped to one file.
getDbPath_shared(studentId) == <<"data", "db_", "students", ".json">>

getDbPath(studentId) == <<"data", "db_", toLowerCase(studentId), ".json">>

DbPaths == {getDbPath(s) : s \in STUDENTS}

\* Requests in flight at the same time.
Procs == {"r1", "r2"}

\* ------------------------------------------------------------------- state
VARIABLES
  files,      \* data/ directory: path -> <<>> (ENOENT) or <<text of the file>>
  clock,      \* the latest instant new Date() has returned
  uuids,      \* how many identifiers uuidv4() has handed out
  pc,         \* per connection: "idle", "reading" (fs.readFile pending),
              \*   "writing" (fs.writeFile pending), "responded"
  req,        \* per connection: the request (route, studentId, id, body)
  data,       \* per connection: the document handed to fs.writeFile
  ret,        \* per connection: the value the database method returns
  res         \* per connection: the response (status, code, value)

vars == <<files, clock, uuids, pc, req, data, ret, res>>

\* -------------------------------------------------------------------- JSON
\* JSON.stringify keeps the properties of an object whose value is not
\* undefined; the text is modelled as the structure it denotes.
stringifyObject(o) ==
  IF IsPrimitive(o) THEN o
  ELSE [k \in {x \in DOMAIN o : o[x] # Undefined} |-> o[k]]

JSONstringify(d) ==
  [user     |-> stringifyObject(d.user),
   books    |-> [i \in 1..Len(d.books) |-> stringifyObject(d.books[i])],
   metadata |-> stringifyObject(d.metadata)]

JSONparse(text) ==
  [user     |-> text.user,
   books    |-> text.books,
   metadata |-> text.metadata]

\* --------------------------------------------------------- DatabaseManager
\* The non-decreasing instants that n successive new Date() calls return.
Dates(n) ==
  {ts \in [1..n -> clock..MaxClock] : \A i \in 1..(n - 1) : ts[i] <= ts[i + 1]}

createEmptyDb(t1, t2) ==
  [user     |-> Null,
   books    |-> <<>>,
   metadata |-> [createdAt       |-> Iso(t1),
                 lastAccess      |-> Iso(t2),
                 totalOperations |-> Num(0)]]

readStudentDb(studentId, t1, t2) ==
  IF files[getDbPath(studentId)] = <<>>
  THEN createEmptyDb(t1, t2)
  ELSE JSONparse(files[getDbPath(studentId)][1])

\* (v || 0) + 1 on the numbers the store writes
PlusOne(v) == Num(Or(v, Num(0)).n + 1)

\* The stamp with the counter read as v || (0 + 1).
stampMetadata_keepsCounter(d, t) ==
  [d EXCEPT !.metadata =
     Set(Set(Spread(d.metadata), "lastAccess", Iso(t)),
         "totalOperations", Or(OptGet(d.metadata, "totalOperations"), Num(1)))]

\* writeStudentDb up to fs.writeFile: the metadata stamp.
stampMetadata(d, t) ==
  [d EXCEPT !.metadata =
     Set(Set(Spread(d.metadata), "lastAccess", Iso(t)),
         "totalOperations", PlusOne(OptGet(d.metadata, "totalOperations")))]

\* db.metadata?.totalOperations || 0
totalOperationsOf(d) == Or(OptGet(d.metadata, "totalOperations"), Num(0))

createUser(db, studentId, userData, t) ==
  [db EXCEPT !.user =
     [id        |-> Str(toLowerCase(studentId)),
      name      |-> Get(userData, "name"),
      email     |-> Get(userData, "email"),
      studentId |-> Str(toUpperCase(studentId)),
      password  |-> Get(userData, "hashedPassword"),
      createdAt |-> Iso(t),
      active    |-> True]]

\* The record with an identifier generated once for all records.
newBook_sharedId(bookData, id, t1, t2) ==
  [id        |-> Uuid(1),
   title     |-> Get(bookData, "title"),
   author    |-> Get(bookData, "author"),
   genre     |-> Or(Get(bookData, "genre"), Null),
   year      |-> Or(Get(bookData, "year"), Null),
   pages     |-> Or(Get(bookData, "pages"), Null),
   rating    |-> Or(Get(bookData, "rating"), Null),
   status    |-> Or(Get(bookData, "status"), Str("to-read")),
   notes     |-> Or(Get(bookData, "notes"), Str("")),
   addedAt   |-> Iso(t1),
   updatedAt |-> Iso(t2)]

newBook(bookData, id, t1, t2) ==
  [id        |-> id,
   title     |-> Get(bookData, "title"),
   author    |-> Get(bookData, "author"),
   genre     |-> Or(Get(bookData, "genre"), Null),
   year      |-> Or(Get(bookData, "year"), Null),
   pages     |-> Or(Get(bookData, "pages"), Null),
   rating    |-> Or(Get(bookData, "rating"), Null),
   status    |-> Or(Get(bookData, "status"), Str("to-read")),
   notes     |-> Or(Get(bookData, "notes"), Str("")),
   addedAt   |-> Iso(t1),
   updatedAt |-> Iso(t2)]

\* books.unshift(newBook) in place of books.push(newBook)
addBook_unshift(db, bookData, id, t1, t2) ==
  [db EXCEPT !.books = <<newBook(bookData, id, t1, t2)>> \o @]

addBook(db, bookData, id, t1, t2) ==
  [db EXCEPT !.books = Append(@, newBook(bookData, id, t1, t2))]

\* The index of the last book when no book matches.
findIndex_lastOnMiss(books, bookId) ==
  LET hits == {i \in 1..Len(books) : Get(books[i], "id") = bookId}
  IN  IF hits = {} THEN (IF Len(books) = 0 THEN -1 ELSE Len(books))
      ELSE CHOOSE i \in hits : \A j \in hits : i <= j

\* books.findIndex(book => book.id === bookId), -1 when no book matches
findIndex(books, bookId) ==
  LET hits == {i \in 1..Len(books) : Get(books[i], "id") = bookId}
  IN  IF hits = {} THEN -1 ELSE CHOOSE i \in hits : \A j \in hits : i <= j

allowedFields ==
  {"title", "author", "genre", "year", "pages", "rating", "status", "notes"}

\* Object.assign(book, updateData) in place of the allowedFields loop
applyUpdate_assign(book, updateData, t) ==
  LET copied == [k \in DOMAIN book \cup DOMAIN updateData |->
                   IF k \in DOMAIN updateData THEN updateData[k] ELSE book[k]]
  IN  Set(copied, "updatedAt", Iso(t))

\* the allowedFields.forEach loop and the updatedAt stamp on one record
applyUpdate(book, updateData, t) ==
  LET given  == {f \in allowedFields : Get(updateData, f) # Undefined}
      copied == [k \in DOMAIN book \cup given |->
                   IF k \in given THEN updateData[k] ELSE book[k]]
  IN  Set(copied, "updatedAt", Iso(t))

updateBook(db, bookIndex, updateData, t) ==
  [db EXCEPT !.books[bookIndex] = applyUpdate(@, updateData, t)]

\* books.splice(bookIndex + 1, 1)
splice_offByOne(books, bookIndex) ==
  IF bookIndex + 1 > Len(books) THEN books
  ELSE [i \in 1..(Len(books) - 1) |->
          IF i < bookIndex + 1 THEN books[i] ELSE books[i + 1]]

\* books.splice(bookIndex, 1)
splice(books, bookIndex) ==
  [i \in 1..(Len(books) - 1) |->
     IF i < bookIndex THEN books[i] ELSE books[i + 1]]

\* books.pop() in place of books.splice(bookIndex, 1)
deleteBook_pop(db, bookIndex) ==
  [db EXCEPT !.books = SubSeq(@, 1, Len(@) - 1)]

deleteBook(db, bookIndex) ==
  [db EXCEPT !.books = splice(@, bookIndex)]

\* The reset with createdAt stamped anew.
resetDatabase_freshCreatedAt(db, t1, t2, t3) ==
  [user     |-> db.user,
   books    |-> <<>>,
   metadata |-> [createdAt          |-> Iso(t1),
                 lastAccess         |-> Iso(t2),
                 totalOperations    |-> Num(0),
                 resetAt            |-> Iso(t3),
                 previousOperations |-> totalOperationsOf(db)]]

resetDatabase(db, t1, t2, t3) ==
  [user     |-> db.user,
   books    |-> <<>>,
   metadata |-> [createdAt          |-> Or(OptGet(db.metadata, "createdAt"), Iso(t1)),
                 lastAccess         |-> Iso(t2),
                 totalOperations    |-> Num(0),
                 resetAt            |-> Iso(t3),
                 previousOperations |-> totalOperationsOf(db)]]

\* ---------------------------------------------------------- request bodies
RegisterBodies ==
  {[name |-> Str("Ana"), email |-> Str("ana@biblioteca.com"), password |-> Str("secret1")],
   [name |-> Str("Ana"), email |-> Str("ana@biblioteca.com"), password |-> Str("abc")],
   [name |-> Str("Ana")]}

CreateBodies ==
  {[title |-> Str("Dune"), author |-> Str("Herbert")],
   [title |-> Str("Emma"), author |-> Str("Austen"), genre |-> Str("Novel"),
    rating |-> Num(5), status |-> Str("read")],
   [title |-> Str(""), author |-> Str("Herbert")],
   [title |-> Str("Dune"), author |-> Str("Herbert"), status |-> Str("bogus")]}

UpdateBodies ==
  {[status |-> Str("reading")],
   [status |-> Str("bogus")],
   [status |-> Str("")],
   [title |-> Str("")],
   [title |-> Str("Dune II"), id |-> Str("forged"), addedAt |-> Iso(MaxClock),
    owner |-> Str("CALEB")]}

ResetBodies ==
  {[confirmReset |-> True, confirmation |-> Str("DELETE_ALL_MY_DATA")],
   [confirmReset |-> True],
   [confirmation |-> Str("DELETE_ALL_MY_DATA")]}

\* The :id path segments requests are made with.
BookIds == {Uuid(k) : k \in 1..MaxIds}

\* password.length
length(v) ==
  CASE v = Str("secret1")        -> 7
    [] v = Str("abc")            -> 3
    [] v = Str("wrong-password") -> 14
    [] OTHER                     -> 0

\* bcrypt.hash(password, 10)
bcryptHash(password) == [t |-> "string", s |-> "bcrypt", n |-> length(password)]

\* ----------------------------------------------------------------- routing
NoReq == [route |-> "", studentId |-> "", id |-> Undefined, body |-> Undefined]
NoResponse == [status |-> 0, code |-> "", value |-> Null]

Init ==
  /\ files = [f \in DbPaths |-> <<>>]
  /\ clock = 0
  /\ uuids = 0
  /\ pc = [p \in Procs |-> "idle"]
  /\ req = [p \in Procs |-> NoReq]
  /\ data = [p \in Procs |-> Null]
  /\ ret = [p \in Procs |-> Null]
  /\ res = [p \in Procs |-> NoResponse]

\* res.status(status).json({code, ...value})
Respond(p, status, code, value) ==
  /\ res' = [res EXCEPT ![p] = [status |-> status, code |-> code, value |-> value]]
  /\ pc' = [pc EXCEPT ![p] = "responded"]
  /\ data' = [data EXCEPT ![p] = Null]
  /\ ret' = [ret EXCEPT ![p] = Null]

Request(route, studentId, id, body) ==
  [route |-> route, studentId |-> studentId, id |-> id, body |-> body]

\* A middleware or the handler rejects the request r before any database call.
Reject(p, r, status, code) ==
  /\ req' = [req EXCEPT ![p] = r]
  /\ Respond(p, status, code, Null)

\* The handler has called the database method; its fs.readFile is pending.
Call(p, r) ==
  /\ pc' = [pc EXCEPT ![p] = "reading"]
  /\ req' = [req EXCEPT ![p] = r]
  /\ UNCHANGED <<data, ret, res>>

\* The database method returns without writing and the handler responds.
Return(p, status, code, value) ==
  /\ Respond(p, status, code, value)
  /\ UNCHANGED req

\* The database method has called fs.writeFile with d and will return r.
Write(p, d, r) ==
  /\ pc' = [pc EXCEPT ![p] = "writing"]
  /\ data' = [data EXCEPT ![p] = d]
  /\ ret' = [ret EXCEPT ![p] = r]
  /\ UNCHANGED <<req, res>>

\* The client has the response; the connection takes the next request.
Receive(p) ==
  /\ pc[p] = "responded"
  /\ pc' = [pc EXCEPT ![p] = "idle"]
  /\ req' = [req EXCEPT ![p] = NoReq]
  /\ res' = [res EXCEPT ![p] = NoResponse]
  /\ UNCHANGED <<files, clock, uuids, data, ret>>

\* A request arrives on an idle connection, one of those the clients hold.
Arrive(p, conns) ==
  /\ p \in conns
  /\ pc[p] = "idle"

\* validateStudent: the upper-cased path segment must name a student.
validateStudent(student) == toUpperCase(student) \in STUDENTS

\* The user stored for a student, as db.getUser returns it.
getUser(studentId) == readStudentDb(studentId, clock, clock).user

\* The bearer tokens a request can carry: none, or a token that decodes
\* (jwt.verify) to a studentId.
Tokens == {"none"} \cup STUDENTS

\* verifyToken: "" when the request may proceed, else the error code.
verifyToken(studentId, token) ==
  IF token = "none" THEN "NO_TOKEN"
  ELSE IF token # studentId THEN "TOKEN_MISMATCH"
  ELSE IF ~Truthy(getUser(studentId)) \/ ~Truthy(Get(getUser(studentId), "active"))
       THEN "USER_INVALID"
  ELSE ""

verifyTokenStatus(code) == IF code = "NO_TOKEN" THEN 401 ELSE 403

\* A workload w bounds the requests made: the path segments (paths), the
\* connections the clients hold, one request in flight on each (conns), the
\* bodies of POST /books (creates) and of PUT /books/:id (updates).

\* ------------------------------------------ POST /:student/auth/register
PostAuthRegister(p, w) ==
  /\ Arrive(p, w.conns)
  /\ \E student \in w.paths :
       IF ~validateStudent(student)
       THEN Reject(p, Request("register", toUpperCase(student), Undefined, Undefined),
                   404, "STUDENT_NOT_FOUND")
       ELSE \E body \in RegisterBodies :
              LET r == Request("register", toUpperCase(student), Undefined, body)
              IN  IF ~Truthy(Get(body, "name")) \/ ~Truthy(Get(body, "email"))
                       \/ ~Truthy(Get(body, "password"))
                  THEN Reject(p, r, 400, "MISSING_FIELDS")
                  ELSE IF length(body.password) < 6
                  THEN Reject(p, r, 400, "PASSWORD_TOO_SHORT")
                  ELSE Call(p, r)
  /\ UNCHANGED <<files, clock, uuids>>

RunCreateUser(p) ==
  /\ pc[p] = "reading"
  /\ req[p].route = "register"
  /\ \E ts \in Dates(4) :
       LET db       == readStudentDb(req[p].studentId, ts[1], ts[2])
           userData == [name           |-> req[p].body.name,
                        email          |-> req[p].body.email,
                        hashedPassword |-> bcryptHash(req[p].body.password)]
           withUser == createUser(db, req[p].studentId, userData, ts[3])
       IN  IF Truthy(db.user)
           THEN /\ clock' = ts[2]
                /\ Return(p, 409, "USER_ALREADY_EXISTS", Null)
           ELSE /\ totalOperationsOf(db).n < MaxOps
                /\ clock' = ts[4]
                /\ Write(p, stampMetadata(withUser, ts[4]), withUser.user)
  /\ UNCHANGED <<files, uuids>>

\* --------------------------------------------------- POST /:student/books
PostBooks(p, w) ==
  /\ Arrive(p, w.conns)
  /\ \E student \in w.paths, token \in Tokens :
       LET studentId == toUpperCase(student)
           early     == Request("addBook", studentId, Undefined, Undefined)
       IN  IF ~validateStudent(student)
           THEN Reject(p, early, 404, "STUDENT_NOT_FOUND")
           ELSE IF verifyToken(studentId, token) # ""
           THEN Reject(p, early, verifyTokenStatus(verifyToken(studentId, token)),
                       verifyToken(studentId, token))
           ELSE \E bookData \in w.creates :
                  LET r == Request("addBook", studentId, Undefined, bookData)
                  IN  IF ~Truthy(Get(bookData, "title"))
                           \/ ~Truthy(Get(bookData, "author"))
                      THEN Reject(p, r, 400, "MISSING_REQUIRED_FIELDS")
                      ELSE IF Truthy(Get(bookData, "status"))
                                /\ Get(bookData, "status") \notin BOOK_STATUSES
                      THEN Reject(p, r, 400, "INVALID_STATUS")
                      ELSE Call(p, r)
  /\ UNCHANGED <<files, clock, uuids>>

RunAddBook(p) ==
  /\ pc[p] = "reading"
  /\ req[p].route = "addBook"
  /\ uuids < MaxIds
  /\ \E ts \in Dates(5) :
       LET db    == readStudentDb(req[p].studentId, ts[1], ts[2])
           added == addBook(db, req[p].body, Uuid(uuids + 1), ts[3], ts[4])
       IN  /\ totalOperationsOf(db).n < MaxOps
           /\ clock' = ts[5]
           /\ Write(p, stampMetadata(added, ts[5]), added.books[Len(added.books)])
  /\ uuids' = uuids + 1
  /\ UNCHANGED files

\* ------------------------------------------------ PUT /:student/books/:id
PutBooksId(p, w) ==
  /\ Arrive(p, w.conns)
  /\ \E student \in w.paths, token \in Tokens :
       LET studentId == toUpperCase(student)
           early     == Request("updateBook", studentId, Undefined, Undefined)
       IN  IF ~validateStudent(student)
           THEN Reject(p, early, 404, "STUDENT_NOT_FOUND")
           ELSE IF verifyToken(studentId, token) # ""
           THEN Reject(p, early, verifyTokenStatus(verifyToken(studentId, token)),
                       verifyToken(studentId, token))
           ELSE \E id \in BookIds, updateData \in w.updates :
                  LET r == Request("updateBook", studentId, id, updateData)
                  IN  IF Truthy(Get(updateData, "status"))
                           /\ Get(updateData, "status") \notin BOOK_STATUSES
                      THEN Reject(p, r, 400, "INVALID_STATUS")
                      ELSE Call(p, r)
  /\ UNCHANGED <<files, clock, uuids>>

RunUpdateBook(p) ==
  /\ pc[p] = "reading"
  /\ req[p].route = "updateBook"
  /\ \E ts \in Dates(4) :
       LET db        == readStudentDb(req[p].studentId, ts[1], ts[2])
           bookIndex == findIndex(db.books, req[p].id)
           updated   == updateBook(db, bookIndex, req[p].body, ts[3])
       IN  IF bookIndex = -1
           THEN /\ clock' = ts[2]
                /\ Return(p, 404, "BOOK_NOT_FOUND", Null)
           ELSE /\ totalOperationsOf(db).n < MaxOps
                /\ clock' = ts[4]
                /\ Write(p, stampMetadata(updated, ts[4]), updated.books[bookIndex])
  /\ UNCHANGED <<files, uuids>>

\* --------------------------------------------- DELETE /:student/books/:id
DeleteBooksId(p, w) ==
  /\ Arrive(p, w.conns)
  /\ \E student \in w.paths, token \in Tokens :
       LET studentId == toUpperCase(student)
           early     == Request("deleteBook", studentId, Undefined, Undefined)
       IN  IF ~validateStudent(student)
           THEN Reject(p, early, 404, "STUDENT_NOT_FOUND")
           ELSE IF verifyToken(studentId, token) # ""
           THEN Reject(p, early, verifyTokenStatus(verifyToken(studentId, token)),
                       verifyToken(studentId, token))
           ELSE \E id \in BookIds :
                  Call(p, Request("deleteBook", studentId, id, Undefined))
  /\ UNCHANGED <<files, clock, uuids>>

RunDeleteBook(p) ==
  /\ pc[p] = "reading"
  /\ req[p].route = "deleteBook"
  /\ \E ts \in Dates(3) :
       LET db        == readStudentDb(req[p].studentId, ts[1], ts[2])
           bookIndex == findIndex(db.books, req[p].id)
       IN  IF bookIndex = -1
           THEN /\ clock' = ts[2]
                /\ Return(p, 404, "BOOK_NOT_FOUND", Null)
           ELSE /\ totalOperationsOf(db).n < MaxOps
                /\ clock' = ts[3]
                /\ Write(p, stampMetadata(deleteBook(db, bookIndex), ts[3]),
                         db.books[bookIndex])
  /\ UNCHANGED <<files, uuids>>

\* -------------------------------------------------- DELETE /:student/reset
DeleteReset(p, w) ==
  /\ Arrive(p, w.conns)
  /\ \E student \in w.paths, token \in Tokens :
       LET studentId == toUpperCase(student)
           early     == Request("resetDatabase", studentId, Undefined, Undefined)
       IN  IF ~validateStudent(student)
           THEN Reject(p, early, 404, "STUDENT_NOT_FOUND")
           ELSE IF verifyToken(studentId, token) # ""
           THEN Reject(p, early, verifyTokenStatus(verifyToken(studentId, token)),
                       verifyToken(studentId, token))
           ELSE \E body \in ResetBodies :
                  LET r == Request("resetDatabase", studentId, Undefined, body)
                  IN  IF ~Truthy(Get(body, "confirmReset"))
                           \/ Get(body, "confirmReset") # True
                      THEN Reject(p, r, 400, "CONFIRMATION_REQUIRED")
                      ELSE IF ~Truthy(Get(body, "confirmation"))
                                \/ Get(body, "confirmation") # Str("DELETE_ALL_MY_DATA")
                      THEN Reject(p, r, 400, "INVALID_CONFIRMATION")
                      ELSE Call(p, r)
  /\ UNCHANGED <<files, clock, uuids>>

RunResetDatabase(p) ==
  /\ pc[p] = "reading"
  /\ req[p].route = "resetDatabase"
  /\ \E ts \in Dates(6) :
       LET db == readStudentDb(req[p].studentId, ts[1], ts[2])
       IN  /\ clock' = ts[6]
           /\ Write(p, stampMetadata(resetDatabase(db, ts[3], ts[4], ts[5]), ts[6]),
                    [deletedBooks    |-> Num(Len(db.books)),
                     totalOperations |-> totalOperationsOf(db)])
  /\ UNCHANGED <<files, uuids>>

\* ------------------------------------------------------------ fs.writeFile
successStatus(route) == IF route \in {"register", "addBook"} THEN 201 ELSE 200

\* The pending write lands, the method returns and the handler responds.
writeStudentDb(p) ==
  /\ pc[p] = "writing"
  /\ files' = [files EXCEPT ![getDbPath(req[p].studentId)] = <<JSONstringify(data[p])>>]
  /\ Return(p, successStatus(req[p].route), "", ret[p])
  /\ UNCHANGED <<clock, uuids>>

Step(w) ==
  \E p \in Procs :
    \/ PostAuthRegister(p, w)
    \/ RunCreateUser(p)
    \/ PostBooks(p, w)
    \/ RunAddBook(p)
    \/ PutBooksId(p, w)
    \/ RunUpdateBook(p)
    \/ DeleteBooksId(p, w)
    \/ RunDeleteBook(p)
    \/ DeleteReset(p, w)
    \/ RunResetDatabase(p)
    \/ writeStudentDb(p)
    \/ Receive(p)

\* One student's requests, one at a time, with every request body.
Next ==
  Step([paths |-> {"argenis", "nobody"}, conns |-> {"r1"},
        creates |-> CreateBodies, updates |-> UpdateBodies])
Spec == Init /\ [][Next]_vars

\* One student's requests interleaving, with the plain request bodies.
NextConcurrent ==
  Step([paths |-> {"argenis", "nobody"}, conns |-> Procs,
        creates |-> {[title |-> Str("Dune"), author |-> Str("Herbert")]},
        updates |-> {[status |-> Str("reading")]}])
SpecConcurrent == Init /\ [][NextConcurrent]_vars

\* ------------------------------------------------- save and load, alone
\* writeStudentDb(studentId, d) followed by readStudentDb(studentId), for
\* documents d drawn from the shapes the store writes and reads.
SampleUser ==
  [id |-> Str("argenis"), name |-> Str("Ana"), email |-> Str("ana@biblioteca.com"),
   studentId |-> Str("ARGENIS"), password |-> bcryptHash(Str("secret1")),
   createdAt |-> Iso(0), active |-> True]

SampleBooks ==
  {<<>>,
   <<newBook([title |-> Str("Dune"), author |-> Str("Herbert")], Uuid(1), 0, 0)>>,
   <<newBook([title |-> Str("Dune"), author |-> Str("Herbert")], Uuid(1), 0, 0),
     newBook([title |-> Str("Emma"), author |-> Str("Austen"), rating |-> Num(5)],
             Uuid(2), 0, MaxClock)>>}

SampleMetadata ==
  {Undefined}
  \cup {[createdAt |-> Iso(c), lastAccess |-> Iso(c)] : c \in 0..MaxClock}
  \cup {[createdAt |-> Iso(c), lastAccess |-> Iso(c), totalOperations |-> Num(n)] :
          c \in 0..MaxClock, n \in 0..MaxOps}
  \cup {[createdAt |-> Iso(0), lastAccess |-> Iso(c), totalOperations |-> Num(n),
         resetAt |-> Iso(c), previousOperations |-> Num(MaxOps)] :
          c \in 0..MaxClock, n \in 0..MaxOps}

Documents ==
  {[user |-> u, books |-> b, metadata |-> m] :
     u \in {Null, SampleUser}, b \in SampleBooks, m \in SampleMetadata}

InitRoundTrip ==
  /\ files = [f \in DbPaths |-> <<>>]
  /\ clock \in 0..MaxClock
  /\ uuids = 0
  /\ \E studentId \in STUDENTS, d \in Documents :
       /\ req = [p \in Procs |->
                   IF p = "r1" THEN Request("roundTrip", studentId, Undefined, Undefined)
                   ELSE NoReq]
       /\ data = [p \in Procs |-> IF p = "r1" THEN d ELSE Null]
  /\ pc = [p \in Procs |-> IF p = "r1" THEN "save" ELSE "idle"]
  /\ ret = [p \in Procs |-> Null]
  /\ res = [p \in Procs |-> NoResponse]

\* writeStudentDb(studentId, data[p]), from the stamp to the landed write
RoundTripWrite(p) ==
  /\ pc[p] = "save"
  /\ \E ts \in Dates(1) :
       /\ clock' = ts[1]
       /\ files' = [files EXCEPT ![getDbPath(req[p].studentId)] =
                      <<JSONstringify(stampMetadata(data[p], ts[1]))>>]
  /\ pc' = [pc EXCEPT ![p] = "saved"]
  /\ UNCHANGED <<uuids, req, data, ret, res>>

\* readStudentDb(studentId)
RoundTripRead(p) ==
  /\ pc[p] = "saved"
  /\ \E ts \in Dates(2) :
       /\ clock' = ts[2]
       /\ ret' = [ret EXCEPT ![p] = readStudentDb(req[p].studentId, ts[1], ts[2])]
  /\ pc' = [pc EXCEPT ![p] = "loaded"]
  /\ UNCHANGED <<files, uuids, req, data, res>>

NextRoundTrip == \E p \in Procs : RoundTripWrite(p) \/ RoundTripRead(p)
SpecRoundTrip == InitRoundTrip /\ [][NextRoundTrip]_vars

\* ------------------------------------------- strings, numbers, comparisons
\* Not-a-Number, as parseInt and ToNumber give it.
NaN == [t |-> "number", s |-> "NaN", n |-> 0]

IsNaN(v) == v = NaN

\* The UTF-16 code units the texts of the model are made of, in code order.
Alphabet ==
  <<" ", "-", "0", "1", "2", "3", "4", "5", "6", "7", "8", "9",
    "A", "B", "C", "D", "E", "F", "G", "H", "I", "J", "K", "L", "M",
    "N", "O", "P", "Q", "R", "S", "T", "U", "V", "W", "X", "Y", "Z",
    "a", "b", "c", "d", "e", "f", "g", "h", "i", "j", "k", "l", "m",
    "n", "o", "p", "q", "r", "s", "t", "u", "v", "w", "x", "y", "z">>

CodeUnits ==
  [c \in {Alphabet[i] : i \in 1..Len(Alphabet)} |->
     CHOOSE i \in 1..Len(Alphabet) : Alphabet[i] = c]

codeUnit(c) == CodeUnits[c]

\* The code units of a string.
chars(x) ==
  CASE x = ""        -> <<>>
    [] x = "0"       -> <<"0">>
    [] x = "1"       -> <<"1">>
    [] x = "2"       -> <<"2">>
    [] x = "3"       -> <<"3">>
    [] x = "4"       -> <<"4">>
    [] x = "5"       -> <<"5">>
    [] x = "-1"      -> <<"-", "1">>
    [] x = "10"      -> <<"1", "0">>
    [] x = "1965"    -> <<"1", "9", "6", "5">>
    [] x = "abc"     -> <<"a", "b", "c">>
    [] x = "aus"     -> <<"a", "u", "s">>
    [] x = "NOV"     -> <<"N", "O", "V">>
    [] x = "Dune"    -> <<"D", "u", "n", "e">>
    [] x = "Dune II" -> <<"D", "u", "n", "e", " ", "I", "I">>
    [] x = "emma"    -> <<"e", "m", "m", "a">>
    [] x = "Emma"    -> <<"E", "m", "m", "a">>
    [] x = "Herbert" -> <<"H", "e", "r", "b", "e", "r", "t">>
    [] x = "Austen"  -> <<"A", "u", "s", "t", "e", "n">>
    [] x = "SciFi"   -> <<"S", "c", "i", "F", "i">>
    [] x = "Novel"   -> <<"N", "o", "v", "e", "l">>
    [] x = "Essay"   -> <<"E", "s", "s", "a", "y">>
    [] x = "read"    -> <<"r", "e", "a", "d">>
    [] x = "reading" -> <<"r", "e", "a", "d", "i", "n", "g">>
    [] x = "to-read" -> <<"t", "o", "-", "r", "e", "a", "d">>
    [] x = "title"   -> <<"t", "i", "t", "l", "e">>
    [] x = "rating"  -> <<"r", "a", "t", "i", "n", "g">>
    [] x = "genre"   -> <<"g", "e", "n", "r", "e">>
    [] x = "desc"    -> <<"d", "e", "s", "c">>
    [] x = "asc"     -> <<"a", "s", "c">>

\* String.prototype.toLowerCase on code units
lowerCase(cs) ==
  [i \in 1..Len(cs) |->
     IF codeUnit(cs[i]) \in codeUnit("A")..codeUnit("Z")
     THEN Alphabet[codeUnit(cs[i]) + 26] ELSE cs[i]]

\* s < t on strings: by the first code unit that differs, a prefix first
lexLess(cs, ct) ==
  \E k \in 1..(Len(ct)) :
    /\ \A i \in 1..(k - 1) : i <= Len(cs) /\ cs[i] = ct[i]
    /\ \/ k > Len(cs)
       \/ codeUnit(cs[k]) < codeUnit(ct[k])

\* String.prototype.includes on code units
includes(cs, sub) ==
  \E k \in 0..(Len(cs) - Len(sub)) : SubSeq(cs, k + 1, k + Len(sub)) = sub

IsDigit(c) == codeUnit(c) \in codeUnit("0")..codeUnit("9")

RECURSIVE digitsValue(_)
digitsValue(cs) ==
  IF cs = <<>> THEN 0
  ELSE 10 * digitsValue(SubSeq(cs, 1, Len(cs) - 1))
         + (codeUnit(cs[Len(cs)]) - codeUnit("0"))

\* The longest prefix of digits.
RECURSIVE digitPrefix(_)
digitPrefix(cs) ==
  IF cs = <<>> \/ ~IsDigit(cs[1]) THEN <<>>
  ELSE <<cs[1]>> \o digitPrefix(Tail(cs))

\* parseInt(v): an optional sign and the leading digits of the string of v
parseInt(v) ==
  IF v.t = "number" THEN v
  ELSE IF v.t # "string" THEN NaN
  ELSE LET cs     == chars(v.s)
           neg    == cs # <<>> /\ cs[1] = "-"
           digits == digitPrefix(IF neg THEN Tail(cs) ELSE cs)
       IN  IF digits = <<>> THEN NaN
           ELSE Num((IF neg THEN -1 ELSE 1) * digitsValue(digits))

\* ToNumber(v), as the comparison operators apply it
ToNumber(v) ==
  CASE v.t = "number"    -> v
    [] v.t = "null"      -> Num(0)
    [] v.t = "boolean"   -> Num(v.n)
    [] v.t = "undefined" -> NaN
    [] v.t = "string"    ->
         LET cs     == chars(v.s)
             neg    == cs # <<>> /\ cs[1] = "-"
             digits == IF neg THEN Tail(cs) ELSE cs
         IN  IF cs = <<>> THEN Num(0)
             ELSE IF digits # <<>> /\ digitPrefix(digits) = digits
             THEN Num((IF neg THEN -1 ELSE 1) * digitsValue(digits))
             ELSE NaN

\* a < b
Less(a, b) ==
  IF a.t = "string" /\ b.t = "string"
  THEN lexLess(chars(a.s), chars(b.s))
  ELSE /\ ~IsNaN(ToNumber(a))
       /\ ~IsNaN(ToNumber(b))
       /\ ToNumber(a).n < ToNumber(b).n

\* a >= b
GreaterEq(a, b) ==
  IF a.t = "string" /\ b.t = "string"
  THEN ~lexLess(chars(a.s), chars(b.s))
  ELSE /\ ~IsNaN(ToNumber(a))
       /\ ~IsNaN(ToNumber(b))
       /\ ToNumber(a).n >= ToNumber(b).n

\* a == b
LooseEq(a, b) ==
  CASE a.t = b.t -> a = b /\ ~IsNaN(a)
    [] a.t \in {"null", "undefined"} /\ b.t \in {"null", "undefined"} -> TRUE
    [] a.t \in {"null", "undefined"} \/ b.t \in {"null", "undefined"} -> FALSE
    [] OTHER ->
         /\ ~IsNaN(ToNumber(a))
         /\ ~IsNaN(ToNumber(b))
         /\ ToNumber(a).n = ToNumber(b).n

\* ------------------------------------------------------------------ getBooks
False == [t |-> "boolean", s |-> "", n |-> 0]
Bool(b) == IF b THEN True ELSE False

\* What a stage of getBooks yields: the books, or the TypeError it throws.
Returns(books) == [ok |-> TRUE, books |-> books]
TypeError == [ok |-> FALSE, books |-> <<>>]

\* book.f?.toLowerCase() is a TypeError when book.f is neither null,
\* undefined nor a string.
lowerCaseThrows(book, f) ==
  Get(book, f).t \notin {"null", "undefined", "string"}

\* book.f?.toLowerCase().includes(text.toLowerCase())
matchesText(book, f, text) ==
  /\ Get(book, f).t = "string"
  /\ includes(lowerCase(chars(book[f].s)), lowerCase(chars(text.s)))

\* if (filters.f) books = books.filter(book => book.f?.toLowerCase()...)
filterText(r, filters, f) ==
  IF ~r.ok \/ ~Truthy(Get(filters, f)) THEN r
  ELSE IF \E i \in 1..Len(r.books) : lowerCaseThrows(r.books[i], f) THEN TypeError
  ELSE Returns(SelectSeq(r.books, LAMBDA book : matchesText(book, f, filters[f])))

\* if (filters.status) books = books.filter(book => book.status === filters.status)
filterStatus(r, filters) ==
  IF ~r.ok \/ ~Truthy(Get(filters, "status")) THEN r
  ELSE Returns(SelectSeq(r.books, LAMBDA book : Get(book, "status") = filters.status))

\* if (filters.year) books = books.filter(book => book.year == filters.year)
filterYear(r, filters) ==
  IF ~r.ok \/ ~Truthy(Get(filters, "year")) THEN r
  ELSE Returns(SelectSeq(r.books, LAMBDA book : LooseEq(Get(book, "year"), filters.year)))

\* if (filters.rating) books = books.filter(book => book.rating >= parseInt(filters.rating))
filterRating(r, filters) ==
  IF ~r.ok \/ ~Truthy(Get(filters, "rating")) THEN r
  ELSE Returns(SelectSeq(r.books,
         LAMBDA book : GreaterEq(Get(book, "rating"), parseInt(filters.rating))))

\* The filters of getBooks, in the order the code applies them.
applyFilters(books, filters) ==
  filterRating(
    filterYear(
      filterText(
        filterStatus(
          filterText(Returns(books), filters, "genre"),
          filters),
        filters, "author"),
      filters),
    filters)

\* filters.order === 'desc' ? -1 : 1
orderOf(filters) == IF Get(filters, "order") = Str("desc") THEN -1 ELSE 1

\* The comparator throws: aVal is a string and bVal.toLowerCase is not callable.
compareThrows(a, b, sortField) ==
  Get(a, sortField).t = "string" /\ Get(b, sortField).t # "string"

\* The comparator of books.sort: -1 * order, 1 * order or 0
compare(a, b, sortField, order) ==
  LET aVal == Get(a, sortField)
      bVal == Get(b, sortField)
  IN  IF aVal.t = "string"
      THEN (IF lexLess(lowerCase(chars(aVal.s)), lowerCase(chars(bVal.s))) THEN -1 * order
            ELSE IF lexLess(lowerCase(chars(bVal.s)), lowerCase(chars(aVal.s))) THEN 1 * order
            ELSE 0)
      ELSE (IF Less(aVal, bVal) THEN -1 * order
            ELSE IF Less(bVal, aVal) THEN 1 * order
            ELSE 0)

\* The comparator is consistent on the books (ECMAScript: it never throws
\* and a < b, a = b, a > b behave as a strict weak ordering), so that
\* Array.prototype.sort has one result.
consistentComparator(books, sortField, order) ==
  LET cmp(i, j) == compare(books[i], books[j], sortField, order)
      idx == 1..Len(books)
  IN  /\ \A i, j \in idx : ~compareThrows(books[i], books[j], sortField)
      /\ \A i, j \in idx : cmp(i, j) = -cmp(j, i)
      /\ \A i, j, k \in idx : (cmp(i, j) < 0 /\ cmp(j, k) < 0) => cmp(i, k) < 0
      /\ \A i, j, k \in idx : (cmp(i, j) = 0 /\ cmp(j, k) = 0) => cmp(i, k) = 0

\* The insertion that puts x in front of the elements it compares equal to.
insertSorted_beforeEqual(sorted, x, sortField, order) ==
  LET after == {i \in 1..(Len(sorted) + 1) :
                  \A j \in i..Len(sorted) : compare(sorted[j], x, sortField, order) >= 0}
      pos   == CHOOSE i \in after : \A j \in after : i <= j
  IN  SubSeq(sorted, 1, pos - 1) \o <<x>> \o SubSeq(sorted, pos, Len(sorted))

\* One step of a stable insertion sort: x goes behind every element that
\* does not compare greater than it.
insertSorted(sorted, x, sortField, order) ==
  LET after == {i \in 1..(Len(sorted) + 1) :
                  \A j \in i..Len(sorted) : compare(sorted[j], x, sortField, order) > 0}
      pos   == CHOOSE i \in after : \A j \in after : i <= j
  IN  SubSeq(sorted, 1, pos - 1) \o <<x>> \o SubSeq(sorted, pos, Len(sorted))

RECURSIVE stableSort(_, _, _)
stableSort(books, sortField, order) ==
  IF books = <<>> THEN <<>>
  ELSE insertSorted(stableSort(SubSeq(books, 1, Len(books) - 1), sortField, order),
                    books[Len(books)], sortField, order)

permutations(books) ==
  {[i \in 1..Len(books) |-> books[f[i]]] :
     f \in {g \in [1..Len(books) -> 1..Len(books)] :
              \A i, j \in 1..Len(books) : i # j => g[i] # g[j]}}

\* if (filters.sort) books.sort(comparator): its results.  With a
\* consistent comparator the sort is stable (ECMAScript 2019); otherwise the
\* order is implementation-defined, and the comparator may be called on a
\* pair on which it throws.
sortOutcomes(r, filters) ==
  IF ~r.ok \/ ~Truthy(Get(filters, "sort")) THEN {r}
  ELSE IF consistentComparator(r.books, filters.sort.s, orderOf(filters))
  THEN {Returns(stableSort(r.books, filters.sort.s, orderOf(filters)))}
  ELSE {Returns(b) : b \in permutations(r.books)}
       \cup (IF \E i, j \in 1..Len(r.books) :
                   i # j /\ compareThrows(r.books[i], r.books[j], filters.sort.s)
             THEN {TypeError} ELSE {})

\* Math.ceil(a / b) on integers, b # 0
ceilDiv(a, b) ==
  IF b > 0 THEN (a + b - 1) \div b ELSE -(a \div (-b))

\* Array.prototype.slice(start, end), indices counted from 0, negative
\* ones from the end
slice(books, start, end) ==
  LET len  == Len(books)
      from == IF start < 0 THEN (IF len + start < 0 THEN 0 ELSE len + start)
              ELSE (IF start > len THEN len ELSE start)
      to   == IF end < 0 THEN (IF len + end < 0 THEN 0 ELSE len + end)
              ELSE (IF end > len THEN len ELSE end)
  IN  SubSeq(books, from + 1, to)

\* parseInt(pagination.page) || 1
pageOf(pagination) == Or(parseInt(Get(pagination, "page")), Num(1)).n

\* parseInt(pagination.limit) || 10
limitOf(pagination) == Or(parseInt(Get(pagination, "limit")), Num(10)).n

\* The slice that starts at page * limit.
paginate_fromPage(books, pagination) ==
  LET startIndex == pageOf(pagination) * limitOf(pagination)
  IN  slice(books, startIndex, startIndex + limitOf(pagination))

\* const startIndex = (page - 1) * limit ... books.slice(startIndex, endIndex)
paginate(books, pagination) ==
  LET startIndex == (pageOf(pagination) - 1) * limitOf(pagination)
  IN  slice(books, startIndex, startIndex + limitOf(pagination))

\* The pagination object of the result.
paginationOf(books, pagination) ==
  LET page     == pageOf(pagination)
      limit    == limitOf(pagination)
      endIndex == (page - 1) * limit + limit
  IN  [currentPage  |-> Num(page),
       totalPages   |-> Num(ceilDiv(Len(books), limit)),
       totalBooks   |-> Num(Len(books)),
       booksPerPage |-> Num(limit),
       hasNext      |-> Bool(endIndex < Len(books)),
       hasPrev      |-> Bool(page > 1)]

\* getBooks from the resolved read on: every result it can return, and
\* whether it can throw.
getBooks(db, filters, pagination) ==
  {IF r.ok
   THEN [ok |-> TRUE, books |-> paginate(r.books, pagination),
         pagination |-> paginationOf(r.books, pagination)]
   ELSE [ok |-> FALSE, books |-> <<>>, pagination |-> Null] :
     r \in sortOutcomes(applyFilters(db.books, filters), filters)}

\* ------------------------------------------------------- the read routes
MaxBooks == 3      \* books in a stored document the queries run on

\* Book records as create and update leave them: with every optional field
\* given, with titles that differ in case only, and with the defaults.
Catalog ==
  {[title |-> Str("Dune"), author |-> Str("Herbert"), genre |-> Str("SciFi"),
    year |-> Num(1965), rating |-> Num(5), status |-> Str("read")],
   [title |-> Str("emma"), author |-> Str("Austen"), genre |-> Str("Novel"),
    rating |-> Num(3), status |-> Str("reading")],
   [title |-> Str("Emma"), author |-> Str("Austen"), genre |-> Str("Novel"),
    year |-> Str("1965"), rating |-> Num(5), status |-> Str("read")],
   [title |-> Str("Dune"), author |-> Str("Herbert")]}

\* The documents of a registered student that holds up to MaxBooks books.
QueryDocuments ==
  {[user     |-> SampleUser,
    books    |-> [i \in 1..Len(c) |-> newBook(c[i], Uuid(i), 0, 0)],
    metadata |-> [createdAt |-> Iso(0), lastAccess |-> Iso(0),
                  totalOperations |-> Num(Len(c) + 1)]] :
     c \in UNION {[1..m -> Catalog] : m \in 0..MaxBooks}}

\* req.query: the parameters given, each a string.
Query(q) == [k \in {x \in DOMAIN q : q[x] # Undefined} |-> q[k]]

FilterQueries ==
  {Query([genre |-> g, status |-> s, author |-> a, year |-> y, rating |-> r]) :
     g \in {Undefined, Str("NOV")}, s \in {Undefined, Str("read")},
     a \in {Undefined, Str("aus")}, y \in {Undefined, Str("1965")},
     r \in {Undefined, Str("0"), Str("3"), Str("abc")}}

SortQueries ==
  {Query([sort |-> f, order |-> o, status |-> s]) :
     f \in {Str("title"), Str("rating"), Str("genre")},
     o \in {Undefined, Str("asc"), Str("desc")},
     s \in {Undefined, Str("read")}}

PageQueries ==
  {Query([page |-> pg, limit |-> l, sort |-> q.sort, order |-> q.order,
          status |-> q.status, rating |-> q.rating]) :
     pg \in {Undefined, Str("-1"), Str("0"), Str("1"), Str("2"), Str("3"), Str("4")},
     l \in {Undefined, Str("1"), Str("2")},
     q \in {[sort |-> Undefined, order |-> Undefined, status |-> Undefined,
             rating |-> Undefined],
            [sort |-> Str("title"), order |-> Str("desc"), status |-> Undefined,
             rating |-> Undefined],
            [sort |-> Undefined, order |-> Undefined, status |-> Undefined,
             rating |-> Str("3")],
            [sort |-> Str("rating"), order |-> Undefined, status |-> Str("read"),
             rating |-> Undefined]}}

Queries == FilterQueries \cup SortQueries \cup PageQueries

\* The instants readStudentDb takes from new Date(): two for the empty
\* document of a missing file, none otherwise.
ReadDates(studentId) ==
  IF files[getDbPath(studentId)] = <<>> THEN Dates(2) ELSE {<<clock, clock>>}

\* ---------------------------------------------------- GET /:student/books
GetBooks(p, w) ==
  /\ Arrive(p, w.conns)
  /\ \E student \in w.paths, token \in Tokens :
       LET studentId == toUpperCase(student)
           early     == Request("getBooks", studentId, Undefined, Undefined)
       IN  IF ~validateStudent(student)
           THEN Reject(p, early, 404, "STUDENT_NOT_FOUND")
           ELSE IF verifyToken(studentId, token) # ""
           THEN Reject(p, early, verifyTokenStatus(verifyToken(studentId, token)),
                       verifyToken(studentId, token))
           ELSE \E query \in w.queries :
                  Call(p, Request("getBooks", studentId, Undefined, query))
  /\ UNCHANGED <<files, clock, uuids>>

RunGetBooks(p) ==
  /\ pc[p] = "reading"
  /\ req[p].route = "getBooks"
  /\ \E ts \in ReadDates(req[p].studentId) :
       LET db         == readStudentDb(req[p].studentId, ts[1], ts[2])
           filters    == req[p].body
           pagination == [page |-> Get(filters, "page"), limit |-> Get(filters, "limit")]
       IN  /\ clock' = ts[2]
           /\ \E result \in getBooks(db, filters, pagination) :
                IF result.ok
                THEN Return(p, 200, "", [books      |-> result.books,
                                         pagination |-> result.pagination,
                                         filters    |-> filters])
                ELSE Return(p, 500, "", Null)
  /\ UNCHANGED <<files, uuids>>

\* ------------------------------------------------ GET /:student/books/:id
\* db.books.find(book => book.id === bookId), undefined when none matches
getBookById(db, bookId) ==
  IF findIndex(db.books, bookId) = -1 THEN Undefined
  ELSE db.books[findIndex(db.books, bookId)]

GetBooksId(p, w) ==
  /\ Arrive(p, w.conns)
  /\ \E student \in w.paths, token \in Tokens :
       LET studentId == toUpperCase(student)
           early     == Request("getBookById", studentId, Undefined, Undefined)
       IN  IF ~validateStudent(student)
           THEN Reject(p, early, 404, "STUDENT_NOT_FOUND")
           ELSE IF verifyToken(studentId, token) # ""
           THEN Reject(p, early, verifyTokenStatus(verifyToken(studentId, token)),
                       verifyToken(studentId, token))
           ELSE \E id \in BookIds :
                  Call(p, Request("getBookById", studentId, id, Undefined))
  /\ UNCHANGED <<files, clock, uuids>>

RunGetBookById(p) ==
  /\ pc[p] = "reading"
  /\ req[p].route = "getBookById"
  /\ \E ts \in ReadDates(req[p].studentId) :
       LET book == getBookById(readStudentDb(req[p].studentId, ts[1], ts[2]), req[p].id)
       IN  /\ clock' = ts[2]
           /\ IF ~Truthy(book)
              THEN Return(p, 404, "BOOK_NOT_FOUND", Null)
              ELSE Return(p, 200, "", [book |-> book])
  /\ UNCHANGED <<files, uuids>>

\* ------------------------------------------------------------------ getStats
\* The calendar year and month of an instant: two instants to a year, one
\* to a month.
getFullYear(t) == t \div 2
getMonth(t) == t % 2

\* books.filter(b => b.status === status).length
countStatus(books, status) ==
  Cardinality({i \in 1..Len(books) : Get(books[i], "status") = Str(status)})

\* values.reduce((sum, b) => sum + b, 0) on numbers
RECURSIVE sum(_)
sum(values) ==
  IF values = <<>> THEN 0 ELSE values[1].n + sum(Tail(values))

\* books.filter(b => b[f]).map(b => b[f])
truthyValues(books, f) ==
  LET kept == SelectSeq(books, LAMBDA b : Truthy(Get(b, f)))
  IN  [i \in 1..Len(kept) |-> kept[i][f]]

\* Math.round(a / b) on non-negative integers, b > 0
roundDiv(a, b) == (2 * a + b) \div (2 * b)

\* Object.keys(count) after values.forEach(v => count[v] = ...): the
\* distinct values in the order of their first occurrence (the keys of the
\* model are no array indices, which would come first).
RECURSIVE objectKeys(_)
objectKeys(values) ==
  IF values = <<>> THEN <<>>
  ELSE LET before == objectKeys(SubSeq(values, 1, Len(values) - 1))
           last   == values[Len(values)]
       IN  IF \E i \in 1..Len(before) : before[i] = last
           THEN before ELSE Append(before, last)

occurrences(values, v) == Cardinality({i \in 1..Len(values) : values[i] = v})

\* keys.reduce((a, b) => count[a] > count[b] ? a : b)
RECURSIVE reduceFavorite(_, _)
reduceFavorite(keys, values) ==
  IF Len(keys) = 1 THEN keys[1]
  ELSE LET a == reduceFavorite(SubSeq(keys, 1, Len(keys) - 1), values)
           b == keys[Len(keys)]
       IN  IF occurrences(values, a) > occurrences(values, b) THEN a ELSE b

\* Object.keys(count).length > 0 ? Object.keys(count).reduce(...) : 'N/A'
favorite(values) ==
  IF Len(objectKeys(values)) > 0
  THEN reduceFavorite(objectKeys(values), values)
  ELSE Str("N/A")

getStats(db, now) ==
  LET books           == db.books
      pages           == truthyValues(books, "pages")
      ratings         == truthyValues(books, "rating")
      topRated        == SelectSeq(books, LAMBDA b : Get(b, "rating") = Num(5))
  IN  [library |->
         [totalBooks     |-> Num(Len(books)),
          booksRead      |-> Num(countStatus(books, "read")),
          booksReading   |-> Num(countStatus(books, "reading")),
          booksToRead    |-> Num(countStatus(books, "to-read")),
          booksAbandoned |-> Num(countStatus(books, "abandoned"))],
       reading |->
         [totalPages    |-> Num(sum(pages)),
          averagePages  |-> Num(IF Len(pages) > 0 THEN roundDiv(sum(pages), Len(pages))
                                ELSE 0),
          \* in tenths: parseFloat((sum / length).toFixed(1))
          averageRating |-> Num(IF Len(ratings) > 0
                                THEN roundDiv(10 * sum(ratings), Len(ratings)) ELSE 0),
          booksThisYear |->
            Num(Cardinality({i \in 1..Len(books) :
                  getFullYear(books[i].addedAt.n) = getFullYear(now)})),
          booksThisMonth |->
            Num(Cardinality({i \in 1..Len(books) :
                  /\ getFullYear(books[i].addedAt.n) = getFullYear(now)
                  /\ getMonth(books[i].addedAt.n) = getMonth(now)}))],
       preferences |->
         [favoriteGenre  |-> favorite(truthyValues(books, "genre")),
          favoriteAuthor |-> favorite([i \in 1..Len(books) |-> Get(books[i], "author")]),
          topRatedBooks  |->
            [i \in 1..(IF Len(topRated) > 3 THEN 3 ELSE Len(topRated)) |->
               [title |-> topRated[i].title, rating |-> topRated[i].rating]]],
       timeline |->
         [firstBook |-> IF Len(books) > 0 THEN books[1].addedAt ELSE Null,
          lastBook  |-> IF Len(books) > 0 THEN books[Len(books)].addedAt ELSE Null,
          mostProductiveDay |-> Str("Lunes")]]

\* --------------------------------------------------- GET /:student/stats
GetStats(p, w) ==
  /\ Arrive(p, w.conns)
  /\ \E student \in w.paths, token \in Tokens :
       LET studentId == toUpperCase(student)
           early     == Request("getStats", studentId, Undefined, Undefined)
       IN  IF ~validateStudent(student)
           THEN Reject(p, early, 404, "STUDENT_NOT_FOUND")
           ELSE IF verifyToken(studentId, token) # ""
           THEN Reject(p, early, verifyTokenStatus(verifyToken(studentId, token)),
                       verifyToken(studentId, token))
           ELSE Call(p, Request("getStats", studentId, Undefined, Undefined))
  /\ UNCHANGED <<files, clock, uuids>>

\* The stats read that saves the document it loaded.
RunGetStats_saving(p) ==
  /\ pc[p] = "reading"
  /\ req[p].route = "getStats"
  /\ \E ts \in ReadDates(req[p].studentId), now \in clock..MaxClock :
       LET db == readStudentDb(req[p].studentId, ts[1], ts[2])
       IN  /\ ts[2] <= now
           /\ clock' = now
           /\ files' = [files EXCEPT ![getDbPath(req[p].studentId)] =
                          <<JSONstringify(stampMetadata(db, now))>>]
           /\ Return(p, 200, "", getStats(db, now))
  /\ UNCHANGED uuids

RunGetStats(p) ==
  /\ pc[p] = "reading"
  /\ req[p].route = "getStats"
  /\ \E ts \in ReadDates(req[p].studentId), now \in clock..MaxClock :
       LET db == readStudentDb(req[p].studentId, ts[1], ts[2])
       IN  /\ ts[2] <= now
           /\ clock' = now
           /\ Return(p, 200, "", getStats(db, now))
  /\ UNCHANGED <<files, uuids>>

\* -------------------------------------------------- GET /:student/profile
\* const userResponse = { ...user }; delete userResponse.password
withoutPassword(user) == [k \in DOMAIN user \ {"password"} |-> user[k]]

GetProfile(p, w) ==
  /\ Arrive(p, w.conns)
  /\ \E student \in w.paths, token \in Tokens :
       LET studentId == toUpperCase(student)
           early     == Request("profile", studentId, Undefined, Undefined)
       IN  IF ~validateStudent(student)
           THEN Reject(p, early, 404, "STUDENT_NOT_FOUND")
           ELSE IF verifyToken(studentId, token) # ""
           THEN Reject(p, early, verifyTokenStatus(verifyToken(studentId, token)),
                       verifyToken(studentId, token))
           ELSE Call(p, Request("profile", studentId, Undefined, getUser(studentId)))
  /\ UNCHANGED <<files, clock, uuids>>

RunGetProfile(p) ==
  /\ pc[p] = "reading"
  /\ req[p].route = "profile"
  /\ \E ts \in ReadDates(req[p].studentId), now \in clock..MaxClock :
       LET db == readStudentDb(req[p].studentId, ts[1], ts[2])
       IN  /\ ts[2] <= now
           /\ clock' = now
           /\ Return(p, 200, "", [user    |-> withoutPassword(req[p].body),
                                  library |-> getStats(db, now).library])
  /\ UNCHANGED <<files, uuids>>

\* ------------------------------------- the read routes on a stored document
QueryWorkload ==
  [paths |-> PathTokens, conns |-> {"r1"}, queries |-> Queries]

InitQueries ==
  /\ \E d \in QueryDocuments :
       files = [f \in DbPaths |->
                  IF f = getDbPath("ARGENIS") THEN <<JSONstringify(d)>> ELSE <<>>]
  /\ clock = 0
  /\ uuids = 0
  /\ pc = [p \in Procs |-> "idle"]
  /\ req = [p \in Procs |-> NoReq]
  /\ data = [p \in Procs |-> Null]
  /\ ret = [p \in Procs |-> Null]
  /\ res = [p \in Procs |-> NoResponse]

NextQueries ==
  \E p \in Procs :
    \/ GetBooks(p, QueryWorkload)
    \/ RunGetBooks(p)
    \/ GetBooksId(p, QueryWorkload)
    \/ RunGetBookById(p)
    \/ GetStats(p, QueryWorkload)
    \/ RunGetStats(p)
    \/ GetProfile(p, QueryWorkload)
    \/ RunGetProfile(p)
    \/ Receive(p)

SpecQueries == InitQueries /\ [][NextQueries]_vars

\* ------------------------------------------------------------ two students
\* Each student's requests on a connection of their own, the steps of the
\* two interleaving freely, with the plain request bodies, at the last
\* instant of the clock.
TenantWorkload(student, conn) ==
  [paths |-> {student}, conns |-> {conn},
   creates |-> {[title |-> Str("Dune"), author |-> Str("Herbert")]},
   updates |-> {[status |-> Str("reading")]},
   queries |-> {Query([status |-> Str("reading")])}]

InitTenants ==
  /\ files = [f \in DbPaths |-> <<>>]
  /\ clock = MaxClock
  /\ uuids = 0
  /\ pc = [p \in Procs |-> "idle"]
  /\ req = [p \in Procs |-> NoReq]
  /\ data = [p \in Procs |-> Null]
  /\ ret = [p \in Procs |-> Null]
  /\ res = [p \in Procs |-> NoResponse]

StepTenant(w) ==
  \/ Step(w)
  \/ \E p \in Procs :
       \/ GetBooks(p, w)
       \/ RunGetBooks(p)
       \/ GetBooksId(p, w)
       \/ RunGetBookById(p)
       \/ GetStats(p, w)
       \/ RunGetStats(p)

NextTenants ==
  \/ StepTenant(TenantWorkload("argenis", "r1"))
  \/ StepTenant(TenantWorkload("CALEB", "r2"))

SpecTenants == InitTenants /\ [][NextTenants]_vars

\* ================================================================ properties
\* The document stored for a student in the directory f.
StoredIn(f, studentId) == JSONparse(f[getDbPath(studentId)][1])
HasFile(f, studentId) == f[getDbPath(studentId)] # <<>>

\* The step in which the pending write of p lands and p is answered.
Lands(p) == pc[p] = "writing" /\ pc'[p] = "responded"

\* No record of books carries the identifier id.
NoBookWithId(books, id) == \A i \in 1..Len(books) : Get(books[i], "id") # id

\* The stored operation counter, an absent one counting as 0.
CounterOf(metadata) ==
  IF OptGet(metadata, "totalOperations") = Undefined THEN 0
  ELSE metadata.totalOperations.n

\* C1: after resetDatabase completes on a tenant whose persisted document had
\* operation counter n, the persisted document has totalOperations = 0 and
\* previousOperations = n.
C1_ResetZeroesCounter ==
  [][\A p \in Procs :
       (Lands(p) /\ req[p].route = "resetDatabase") =>
         LET old == StoredIn(files, req[p].studentId)
             new == StoredIn(files', req[p].studentId)
         IN  /\ Get(new.metadata, "totalOperations") = Num(0)
             /\ Get(new.metadata, "previousOperations") = Num(CounterOf(old.metadata))
    ]_vars

\* C2: resetDatabase on a tenant with k books and operation counter n leaves
\* the persisted document with no books, the same user record and the same
\* metadata.createdAt, and returns deletedBooks = k and totalOperations = n.
C2_ResetFrame ==
  [][\A p \in Procs :
       (Lands(p) /\ req[p].route = "resetDatabase") =>
         LET old == StoredIn(files, req[p].studentId)
             new == StoredIn(files', req[p].studentId)
         IN  /\ new.books = <<>>
             /\ new.user = old.user
             /\ Get(new.metadata, "createdAt") = Get(old.metadata, "createdAt")
             /\ res'[p].status = 200
             /\ res'[p].value = [deletedBooks    |-> Num(Len(old.books)),
                                 totalOperations |-> Num(CounterOf(old.metadata))]
    ]_vars

\* A reset of two books has been answered; the document was created at
\* instant 0 and reset at a later one.
C2_ResetWitness ==
  \E p \in Procs :
    /\ pc[p] = "responded"
    /\ req[p].route = "resetDatabase"
    /\ res[p].status = 200
    /\ res[p].value.deletedBooks = Num(2)
    /\ res[p].value.totalOperations = Num(3)
    /\ LET d == StoredIn(files, req[p].studentId)
       IN  /\ d.books = <<>>
           /\ d.user # Null
           /\ d.metadata.createdAt = Iso(0)
           /\ d.metadata.resetAt = Iso(1)

\* C3: writeStudentDb(tenant, d) followed by readStudentDb(tenant) returns a
\* document whose user, books and metadata.createdAt equal those of d and whose
\* totalOperations is d's plus one, an absent counter counting as 0.
C3_RoundTrip ==
  \A p \in Procs :
    pc[p] = "loaded" =>
      /\ ret[p].user = data[p].user
      /\ ret[p].books = data[p].books
      /\ Get(ret[p].metadata, "createdAt") = OptGet(data[p].metadata, "createdAt")
      /\ Get(ret[p].metadata, "totalOperations") = Num(CounterOf(data[p].metadata) + 1)

\* A document of two books with metadata but no counter has been saved and
\* loaded, and the loaded counter is 1.
C3_RoundTripWitness ==
  \E p \in Procs :
    /\ pc[p] = "loaded"
    /\ data[p].metadata # Undefined
    /\ "totalOperations" \notin DOMAIN data[p].metadata
    /\ Len(data[p].books) = 2
    /\ data[p].user # Null
    /\ ret[p].metadata.totalOperations = Num(1)
    /\ Len(ret[p].books) = 2

\* C4: in every reachable state, also when creates interleave with updates,
\* deletes and resets on the same tenant, the book identifiers of each
\* tenant's persisted document are pairwise distinct.
C4_UniqueIds ==
  \A studentId \in STUDENTS :
    HasFile(files, studentId) =>
      LET books == StoredIn(files, studentId).books
      IN  \A i, j \in 1..Len(books) :
            i # j => Get(books[i], "id") # Get(books[j], "id")

\* A persisted document holds two books.
C4_UniqueIdsWitness ==
  \E studentId \in STUDENTS :
    /\ HasFile(files, studentId)
    /\ Len(StoredIn(files, studentId).books) = 2

\* The body carries a status that is none of the four statuses.
InvalidStatus(body) ==
  /\ ~IsPrimitive(body)
  /\ "status" \in DOMAIN body
  /\ body.status \notin {Str("to-read"), Str("reading"), Str("read"), Str("abandoned")}

\* C5: an update request for a stored record whose body carries a status that
\* is none of the four statuses is answered with the validation error, and
\* the stored document is unchanged.
C5_InvalidStatusRejected ==
  [][\A p \in Procs :
       ( /\ pc[p] # "responded"
         /\ pc'[p] = "responded"
         /\ req'[p].route = "updateBook"
         /\ InvalidStatus(req'[p].body)
         /\ HasFile(files, req'[p].studentId)
         /\ ~NoBookWithId(StoredIn(files, req'[p].studentId).books, req'[p].id) ) =>
         /\ res'[p].status = 400
         /\ res'[p].code = "INVALID_STATUS"
         /\ files' = files
    ]_vars

\* C6: every stored book record has a non-empty title and a non-empty author.
C6_TitleAuthorNonEmpty ==
  \A studentId \in STUDENTS :
    HasFile(files, studentId) =>
      LET books == StoredIn(files, studentId).books
      IN  \A i \in 1..Len(books) :
            /\ Truthy(Get(books[i], "title"))
            /\ Truthy(Get(books[i], "author"))

\* C7: updateBook changes only title, author, genre, year, pages, rating,
\* status, notes and updatedAt of the record: its id and addedAt are
\* unchanged, it gains no key, and every other record is unchanged.
C7_UpdateFrame ==
  [][\A p \in Procs :
       (Lands(p) /\ req[p].route = "updateBook") =>
         LET old == StoredIn(files, req[p].studentId).books
             new == StoredIn(files', req[p].studentId).books
             mutable == {"title", "author", "genre", "year", "pages", "rating",
                         "status", "notes", "updatedAt"}
         IN  /\ Len(new) = Len(old)
             /\ ~NoBookWithId(old, req[p].id)
             /\ \A i \in 1..Len(old) :
                  IF Get(old[i], "id") = req[p].id
                  THEN /\ DOMAIN new[i] \subseteq DOMAIN old[i]
                       /\ \A k \in DOMAIN old[i] \ mutable :
                            k \in DOMAIN new[i] /\ new[i][k] = old[i][k]
                  ELSE new[i] = old[i]
    ]_vars

\* An update whose body carries id, addedAt and a key no record has was
\* applied to one of two stored records.
C7_UpdateWitness ==
  \E p \in Procs :
    /\ pc[p] = "responded"
    /\ req[p].route = "updateBook"
    /\ res[p].status = 200
    /\ {"id", "addedAt", "owner"} \subseteq DOMAIN req[p].body
    /\ LET books == StoredIn(files, req[p].studentId).books
       IN  /\ Len(books) = 2
           /\ \E i \in 1..2 : /\ books[i].id = req[p].id
                              /\ books[i].title = Str("Dune II")

\* C8: deleting the same identifier twice in a row succeeds the first time,
\* shortening the book sequence by exactly one, and the second time returns
\* not-found, leaves the sequence as it is and saves nothing.
C8_DeleteTwice ==
  [][\A p \in Procs :
       /\ (Lands(p) /\ req[p].route = "deleteBook") =>
            LET old == StoredIn(files, req[p].studentId).books
                new == StoredIn(files', req[p].studentId).books
            IN  /\ res'[p].status = 200
                /\ Len(new) = Len(old) - 1
                /\ NoBookWithId(new, req[p].id)
       /\ ( /\ pc[p] = "reading"
            /\ pc'[p] # "reading"
            /\ req[p].route = "deleteBook"
            /\ req[p].id.n <= uuids
            /\ HasFile(files, req[p].studentId)
            /\ NoBookWithId(StoredIn(files, req[p].studentId).books, req[p].id) ) =>
            /\ pc'[p] = "responded"
            /\ res'[p].status = 404
            /\ files' = files
    ]_vars

\* The one book ever created was deleted by the third save of a document
\* never reset, and a further delete of its identifier was answered 404.
C8_DeleteTwiceWitness ==
  \E p \in Procs :
    /\ pc[p] = "responded"
    /\ req[p].route = "deleteBook"
    /\ req[p].id = Uuid(1)
    /\ res[p].code = "BOOK_NOT_FOUND"
    /\ uuids = 1
    /\ LET d == StoredIn(files, req[p].studentId)
       IN  /\ d.books = <<>>
           /\ d.metadata.totalOperations = Num(3)
           /\ "resetAt" \notin DOMAIN d.metadata

\* C9: updateBook and deleteBook called with an identifier that is not in
\* the tenant's book sequence return null (answered 404) and leave the
\* persisted document unchanged, totalOperations and lastAccess included.
C9_NotFoundNoChange ==
  [][\A p \in Procs :
       ( /\ pc[p] = "reading"
         /\ pc'[p] # "reading"
         /\ req[p].route \in {"updateBook", "deleteBook"}
         /\ \/ ~HasFile(files, req[p].studentId)
            \/ NoBookWithId(StoredIn(files, req[p].studentId).books, req[p].id) ) =>
         /\ pc'[p] = "responded"
         /\ res'[p] = [status |-> 404, code |-> "BOOK_NOT_FOUND", value |-> Null]
         /\ data'[p] = Null
         /\ files' = files
    ]_vars

\* An update of an identifier that is not among the stored books of a
\* non-empty document was answered 404.
C9_NotFoundWitness ==
  \E p \in Procs :
    /\ pc[p] = "responded"
    /\ req[p].route = "updateBook"
    /\ res[p] = [status |-> 404, code |-> "BOOK_NOT_FOUND", value |-> Null]
    /\ HasFile(files, req[p].studentId)
    /\ LET books == StoredIn(files, req[p].studentId).books
       IN  Len(books) >= 1 /\ NoBookWithId(books, req[p].id)

\* C10: a successful create leaves the book sequence equal to the previous
\* one with the new record appended; the record has status 'to-read', null
\* genre, year, pages and rating and empty notes where the request gave none.
C10_CreateAppends ==
  [][\A p \in Procs :
       (Lands(p) /\ req[p].route = "addBook") =>
         LET old == StoredIn(files, req[p].studentId).books
             new == StoredIn(files', req[p].studentId).books
             r   == new[Len(new)]
             b   == req[p].body
         IN  /\ new = Append(old, r)
             /\ res'[p].status = 201
             /\ res'[p].value = r
             /\ "status" \notin DOMAIN b => r.status = Str("to-read")
             /\ \A k \in {"genre", "year", "pages", "rating"} :
                  k \notin DOMAIN b => r[k] = Null
             /\ "notes" \notin DOMAIN b => r.notes = Str("")
    ]_vars

\* A create that gave no status was answered with a second stored record.
C10_CreateWitness ==
  \E p \in Procs :
    /\ pc[p] = "responded"
    /\ req[p].route = "addBook"
    /\ res[p].status = 201
    /\ "status" \notin DOMAIN req[p].body
    /\ LET books == StoredIn(files, req[p].studentId).books
       IN  /\ Len(books) = 2
           /\ books[2] = res[p].value
           /\ books[2].status = Str("to-read")
           /\ books[2].rating = Null

\* C11: a successful deleteBook(id) leaves the book sequence equal to the
\* previous one with exactly the record whose identifier is id removed, the
\* remaining records unchanged and in their order, and returns that record.
C11_DeleteFrame ==
  [][\A p \in Procs :
       (Lands(p) /\ req[p].route = "deleteBook") =>
         LET old == StoredIn(files, req[p].studentId).books
             new == StoredIn(files', req[p].studentId).books
         IN  \E i \in 1..Len(old) :
               /\ old[i].id = req[p].id
               /\ new = SubSeq(old, 1, i - 1) \o SubSeq(old, i + 1, Len(old))
               /\ res'[p].value = old[i]
    ]_vars

\* The first of two stored books was deleted and returned; the second one
\* is what the document holds.
C11_DeleteWitness ==
  \E p \in Procs :
    /\ pc[p] = "responded"
    /\ req[p].route = "deleteBook"
    /\ res[p].status = 200
    /\ req[p].id = Uuid(1)
    /\ res[p].value.id = Uuid(1)
    /\ LET books == StoredIn(files, req[p].studentId).books
       IN  Len(books) = 1 /\ books[1].id = Uuid(2)

\* A list query of p was answered with a result.
Listed(p) ==
  /\ pc[p] = "responded"
  /\ req[p].route = "getBooks"
  /\ res[p].status = 200

\* The slices of books for the pages 1..n at the page size given as limit,
\* one after another.
RECURSIVE PagesConcatenated(_, _, _)
PagesConcatenated(books, limit, n) ==
  IF n <= 0 THEN <<>>
  ELSE PagesConcatenated(books, limit, n - 1)
         \o paginate(books, [page |-> Num(n), limit |-> limit])

\* C12: for every book sequence, filter/sort combination and page size >= 1,
\* the slices getBooks returns for page = 1..totalPages (totalPages as the
\* response reports it), concatenated in order, are exactly the filtered and
\* sorted sequence.
C12_PaginationComplete ==
  \A p \in Procs :
    (Listed(p) /\ res[p].value.pagination.booksPerPage.n >= 1) =>
      LET filters == req[p].body
          stored  == StoredIn(files, req[p].studentId).books
      IN  \A r \in sortOutcomes(applyFilters(stored, filters), filters) :
            r.ok =>
              /\ PagesConcatenated(r.books, Get(filters, "limit"),
                                   res[p].value.pagination.totalPages.n) = r.books
              /\ res[p].value.pagination.totalBooks = Num(Len(r.books))

\* Page 2 of three pages of size 1 of a filtered and sorted list was
\* answered with its one book.
C12_PaginationWitness ==
  \E p \in Procs :
    /\ Listed(p)
    /\ {"sort", "status", "page", "limit"} \subseteq DOMAIN req[p].body
    /\ req[p].body.page = Str("2")
    /\ req[p].body.limit = Str("1")
    /\ res[p].value.pagination.totalPages = Num(3)
    /\ Len(res[p].value.books) = 1

\* C13: for every requested integer page outside 1..totalPages (above the
\* last page, zero or negative) and every page size >= 1, getBooks returns an
\* empty slice, totalBooks matching books, totalPages = ceil(totalBooks/size)
\* and hasNext = false.
C13_OutOfRangeEmpty ==
  \A p \in Procs :
    ( /\ Listed(p)
      /\ "page" \in DOMAIN req[p].body
      /\ ~IsNaN(parseInt(req[p].body.page))
      /\ res[p].value.pagination.booksPerPage.n >= 1
      /\ \/ parseInt(req[p].body.page).n < 1
         \/ parseInt(req[p].body.page).n > res[p].value.pagination.totalPages.n ) =>
      LET pg   == res[p].value.pagination
          size == pg.booksPerPage.n
      IN  /\ res[p].value.books = <<>>
          /\ pg.totalPages.n * size >= pg.totalBooks.n
          /\ (pg.totalPages.n - 1) * size < pg.totalBooks.n
          /\ pg.hasNext = False

\* The genres (f = "genre") or authors of the books that have one, in order.
Having(books, f) ==
  LET kept == SelectSeq(books, LAMBDA b : Get(b, f) \notin {Null, Undefined, Str("")})
  IN  [i \in 1..Len(kept) |-> kept[i][f]]

Count(values, v) == Cardinality({i \in 1..Len(values) : values[i] = v})

\* v has the highest count in values, and of the values with that count it
\* is the one that occurs first.
FirstOfMostFrequent(values, v) ==
  \E i \in 1..Len(values) :
    /\ values[i] = v
    /\ \A j \in 1..Len(values) : Count(values, values[j]) <= Count(values, v)
    /\ \A j \in 1..(i - 1) : Count(values, values[j]) < Count(values, v)

\* C14: in getStats, when several genres (authors) share the highest count,
\* favoriteGenre (favoriteAuthor) is the one of them that occurs first in the
\* book sequence; it is 'N/A' when no book has a genre (the collection is
\* empty).
C14_FavoriteFirstOnTie ==
  \A p \in Procs :
    (pc[p] = "responded" /\ req[p].route = "getStats" /\ res[p].status = 200) =>
      LET books   == StoredIn(files, req[p].studentId).books
          genres  == Having(books, "genre")
          authors == Having(books, "author")
          prefs   == res[p].value.preferences
      IN  /\ IF genres = <<>> THEN prefs.favoriteGenre = Str("N/A")
             ELSE FirstOfMostFrequent(genres, prefs.favoriteGenre)
          /\ IF books = <<>> THEN prefs.favoriteAuthor = Str("N/A")
             ELSE FirstOfMostFrequent(authors, prefs.favoriteAuthor)

\* C18: the read operations (getStats, getBooks, getBookById, getUser in
\* verifyToken, readStudentDb) never change the persisted documents, and a
\* read of a tenant with no stored document yields the empty document (no
\* user, no books, counter 0) without creating the file.
C18_ReadsChangeNothing ==
  [][/\ files' = files
     /\ \A studentId \in STUDENTS :
          ~HasFile(files, studentId) =>
            /\ \A t1, t2 \in clock..MaxClock :
                 LET d == readStudentDb(studentId, t1, t2)
                 IN  /\ d.user = Null
                     /\ d.books = <<>>
                     /\ CounterOf(d.metadata) = 0
            /\ getUser(studentId) = Null
            /\ ~HasFile(files', studentId)
    ]_vars

\* Statistics were answered at a later instant from a document of two books
\* that is stored as it was, last access included, and the student who never
\* registered still has no file.
C18_ReadsWitness ==
  /\ pc["r1"] = "responded"
  /\ req["r1"].route = "getStats"
  /\ res["r1"].status = 200
  /\ res["r1"].value.library.totalBooks = Num(2)
  /\ clock = MaxClock
  /\ LET d == StoredIn(files, "ARGENIS")
     IN  /\ Len(d.books) = 2
         /\ d.metadata.totalOperations = Num(3)
         /\ d.metadata.lastAccess = Iso(0)
  /\ ~HasFile(files, "CALEB")

\* The position in books of the record that carries the identifier id.
PositionOf(books, id) == CHOOSE i \in 1..Len(books) : books[i].id = id

\* x sorts before y: numbers by value, strings by their lower-cased text.
Before(x, y) ==
  IF x.t = "string"
  THEN lexLess(lowerCase(chars(x.s)), lowerCase(chars(y.s)))
  ELSE x.n < y.n

Satisfies(book, filters) ==
  /\ "genre" \in DOMAIN filters =>
       /\ book.genre.t = "string"
       /\ includes(lowerCase(chars(book.genre.s)), lowerCase(chars(filters.genre.s)))
  /\ "author" \in DOMAIN filters =>
       /\ book.author.t = "string"
       /\ includes(lowerCase(chars(book.author.s)), lowerCase(chars(filters.author.s)))
  /\ "status" \in DOMAIN filters => book.status = filters.status
  /\ "year" \in DOMAIN filters =>
       /\ book.year # Null
       /\ ToNumber(book.year) = ToNumber(filters.year)
  /\ "rating" \in DOMAIN filters =>
       /\ book.rating # Null
       /\ book.rating.n >= parseInt(filters.rating).n

\* C20: the filter stage of getBooks returns exactly the books, in insertion
\* order, that satisfy every supplied filter at once; with a rating filter
\* of threshold t a book is kept if and only if it has a rating and that
\* rating is >= t.
C20_FiltersExact ==
  \A p \in Procs :
    ( /\ Listed(p)
      /\ DOMAIN req[p].body \subseteq {"genre", "status", "author", "year", "rating"}
      /\ "rating" \in DOMAIN req[p].body => ~IsNaN(parseInt(req[p].body.rating)) ) =>
      LET stored == StoredIn(files, req[p].studentId).books
      IN  res[p].value.books = SelectSeq(stored, LAMBDA b : Satisfies(b, req[p].body))

\* The user stored for a student, null when there is no file.
StoredUser(f, studentId) ==
  IF HasFile(f, studentId) THEN StoredIn(f, studentId).user ELSE Null

\* C15: for any interleaving of registrations on one tenant at most one
\* succeeds, the others failing with the Conflict error; and once a user
\* record is stored, no later operation removes or replaces it.
C15_OneRegistration ==
  [][\A p \in Procs :
       /\ (Lands(p) /\ req[p].route = "register") =>
            StoredUser(files, req[p].studentId) = Null
       /\ ( /\ pc[p] = "reading"
            /\ pc'[p] # "reading"
            /\ req[p].route = "register"
            /\ StoredUser(files, req[p].studentId) # Null ) =>
            /\ pc'[p] = "responded"
            /\ res'[p].status = 409
       /\ \A studentId \in STUDENTS :
            StoredUser(files, studentId) # Null =>
              StoredUser(files', studentId) = StoredUser(files, studentId)
    ]_vars

\* C16: for any sequence, interleaved ones included, of saving operations
\* (registration, create, update, delete) on a tenant never reset, every
\* completed save leaves the persisted totalOperations strictly greater
\* than the value persisted immediately before it.
C16_CounterGrows ==
  [][\A p \in Procs :
       ( /\ Lands(p)
         /\ req[p].route \in {"register", "addBook", "updateBook", "deleteBook"}
         /\ HasFile(files, req[p].studentId) =>
              "resetAt" \notin DOMAIN StoredIn(files, req[p].studentId).metadata
         /\ "resetAt" \notin DOMAIN StoredIn(files', req[p].studentId).metadata ) =>
         CounterOf(StoredIn(files', req[p].studentId).metadata)
           > (IF HasFile(files, req[p].studentId)
              THEN CounterOf(StoredIn(files, req[p].studentId).metadata) ELSE 0)
    ]_vars

\* The student a step of connection p is taken for.
StudentOf(p) == IF req'[p].studentId # "" THEN req'[p].studentId ELSE req[p].studentId

\* C17: every operation invoked for a tenant leaves the persisted document
\* of every other tenant unchanged, and with the operations of two tenants
\* interleaving, each tenant's document changes as it does with that
\* tenant's operations running alone: every save adds one to the counter
\* persisted just before it, a create adds one book, a delete removes one,
\* an update keeps their number, a reset records the counter it found.
C17_TenantIsolation ==
  [][\A p \in Procs :
       (pc'[p] # pc[p]) =>
         /\ \A other \in STUDENTS \ {StudentOf(p)} :
              files'[getDbPath(other)] = files[getDbPath(other)]
         /\ \A q \in Procs \ {p} :
              /\ pc'[q] = pc[q]
              /\ data'[q] = data[q]
              /\ res'[q] = res[q]
         /\ Lands(p) =>
              LET studentId == req[p].studentId
                  new == StoredIn(files', studentId)
                  oldBooks == IF HasFile(files, studentId)
                              THEN Len(StoredIn(files, studentId).books) ELSE 0
                  oldCount == IF HasFile(files, studentId)
                              THEN CounterOf(StoredIn(files, studentId).metadata) ELSE 0
              IN  CASE req[p].route = "resetDatabase" ->
                         /\ new.metadata.previousOperations = Num(oldCount)
                         /\ res'[p].value.deletedBooks = Num(oldBooks)
                    [] req[p].route = "register" ->
                         /\ StoredUser(files, studentId) = Null
                         /\ CounterOf(new.metadata) = oldCount + 1
                    [] req[p].route = "addBook" ->
                         /\ Len(new.books) = oldBooks + 1
                         /\ CounterOf(new.metadata) = oldCount + 1
                    [] req[p].route = "updateBook" ->
                         /\ Len(new.books) = oldBooks
                         /\ CounterOf(new.metadata) = oldCount + 1
                    [] req[p].route = "deleteBook" ->
                         /\ Len(new.books) = oldBooks - 1
                         /\ CounterOf(new.metadata) = oldCount + 1
    ]_vars

\* A create for one student was answered while a save for the other student
\* is pending, and both students' documents are stored, each with its own
\* user.
C17_TenantWitness ==
  /\ pc["r1"] = "responded"
  /\ req["r1"].route = "addBook"
  /\ res["r1"].status = 201
  /\ pc["r2"] = "writing"
  /\ req["r2"].studentId = "CALEB"
  /\ HasFile(files, "ARGENIS")
  /\ HasFile(files, "CALEB")
  /\ StoredIn(files, "ARGENIS").user.studentId = Str("ARGENIS")
  /\ StoredIn(files, "CALEB").user.studentId = Str("CALEB")
  /\ Len(StoredIn(files, "ARGENIS").books) = 1

\* C22: for every stored document made of books as create and update leave
\* them and every sort field that is a book field, the list query is answered
\* with a result and getBooks raises no error, whether the books hold
\* strings, numbers or null in the field.
C22_SortReturns ==
  \A p \in Procs :
    ( /\ pc[p] = "responded"
      /\ req[p].route = "getBooks"
      /\ res[p].code = ""
      /\ "sort" \in DOMAIN req[p].body
      /\ req[p].body.sort.s \in allowedFields ) =>
      res[p].status = 200

\* C23: in every state reached through create, update, delete and reset
\* requests, the statistics of each student's stored document have
\* totalBooks = booksRead + booksReading + booksToRead + booksAbandoned, and
\* totalBooks is the length of the stored book sequence.
C23_StatsTotals ==
  \A studentId \in STUDENTS :
    HasFile(files, studentId) =>
      LET db      == StoredIn(files, studentId)
          library == getStats(db, clock).library
      IN  /\ library.totalBooks.n = library.booksRead.n + library.booksReading.n
                                      + library.booksToRead.n + library.booksAbandoned.n
          /\ library.totalBooks.n = Len(db.books)

\* C21: once a delete of an identifier has been answered with success, the
\* student's document holds no record with that identifier whatever the
\* other requests on the same student do next: get-by-id finds none, the
\* list holds none and the statistics count only the other records.
C21_DeletedStaysDeleted ==
  [][\A p \in Procs :
       ( /\ pc[p] = "responded"
         /\ req[p].route = "deleteBook"
         /\ res[p].status = 200 ) =>
         LET db     == StoredIn(files', req[p].studentId)
             noArgs == [page |-> Undefined, limit |-> Undefined]
             others == SelectSeq(db.books, LAMBDA b : b.id # req[p].id)
         IN  /\ getBookById(db, req[p].id) = Undefined
             /\ \A r \in getBooks(db, noArgs, noArgs) :
                  r.ok /\ NoBookWithId(r.books, req[p].id)
             /\ getStats(db, clock').library.totalBooks = Num(Len(others))
    ]_vars

====
